---- MODULE Spec2Model ----
(***************************************************************************)
(* Model of pkgs/os-specific/darwin/gen-frameworks-baseline.py.            *)
(*                                                                         *)
(* Python strings are sequences of one-character strings, so that          *)
(* startswith, removesuffix, ljust, join and the code-point ordering used  *)
(* by list.sort are computed and not assumed.  Python's None is the value  *)
(* None below, which is no string.  A dict is a function whose DOMAIN is   *)
(* its key set.  The bytes a scan subprocess writes are kept in parsed     *)
(* form: empty, text that is not JSON, or the JSON value they encode.      *)
(***************************************************************************)
EXTENDS Integers, Sequences, FiniteSets, TLC

VARIABLES
    argv,          \* sys.argv
    pc,            \* position of the single thread of control
    sdk,           \* parameter of scan_sdk
    dir,           \* entries of {sdk}/System/Library/Frameworks
    frameworks,    \* local list of scan_sdk
    width,         \* local of scan_sdk
    output,        \* local output buffer of scan_sdk
    idx,           \* position of the for loop in frameworks (1-based)
    deps,          \* local deps list of the current iteration
    running,       \* scan subprocesses that have been started and not exited
    spawned,       \* number of subprocess.run calls made
    listdirCalls,  \* number of os.listdir calls made
    scanLog,       \* the responses of the scans of this run, in order
    stdout,        \* what the process has written to standard output
    writes,        \* number of sys.stdout.write calls made
    exitStatus,    \* process exit status, -1 while the process runs
    run,           \* 1 for a first invocation, 2 for a repeated one
    first          \* what the first invocation did (for the repeated one)

vars == <<argv, pc, sdk, dir, frameworks, width, output, idx, deps, running,
          spawned, listdirCalls, scanLog, stdout, writes, exitStatus, run, first>>

---------------------------------------------------------------------------
(* Bounds of the model. *)

MaxArgs == 2
MaxEntries == 3

---------------------------------------------------------------------------
(* Constants of the program. *)

HEADER == <<"{", " ", "l", "i", "b", "s", ",", " ", "f", "r", "a", "m", "e", "w", "o", "r", "k", "s", " ", "}", ":", " ", "w", "i", "t", "h", " ", "l", "i", "b", "s", ";", " ", "w", "i", "t", "h", " ", "f", "r", "a", "m", "e", "w", "o", "r", "k", "s", ";", "\n", "{", "\n">>

FOOTER == <<"}", "\n">>

ALLOWED_LIBS == << <<"s", "i", "m", "d">> >>

FrameworkSuffix == <<".", "f", "r", "a", "m", "e", "w", "o", "r", "k">>

UsageExitStatus == 64

UnhandledExceptionStatus == 1

None == <<"None">>

---------------------------------------------------------------------------
(* Python string and list primitives. *)

Printable ==
  << " ", "!", "", "#", "$", "%", "&", "'", "(", ")", "*", "+", ",", "-", ".", "/",
     "0", "1", "2", "3", "4", "5", "6", "7", "8", "9", ":", ";", "<", "=", ">", "?",
     "@", "A", "B", "C", "D", "E", "F", "G", "H", "I", "J", "K", "L", "M", "N", "O",
     "P", "Q", "R", "S", "T", "U", "V", "W", "X", "Y", "Z", "[", "", "]", "^", "_",
     "", "a", "b", "c", "d", "e", "f", "g", "h", "i", "j", "k", "l", "m", "n", "o",
     "p", "q", "r", "s", "t", "u", "v", "w", "x", "y", "z", "{", "|", "}", "~" >>

\* ord(c): the code point of a character.  Printable lists code points 32 to
\* 126 in order; the slots of the double quote, the backslash and the backquote
\* are left blank, no string of the model holds them.
Ord(c) ==
    IF c = "\n" THEN 10
    ELSE 31 + (CHOOSE i \in 1..Len(Printable) : Printable[i] = c)

\* a < b for str: code-point lexicographic order.
RECURSIVE StrLess(_, _)
StrLess(a, b) ==
    IF b = <<>> THEN FALSE
    ELSE IF a = <<>> THEN TRUE
    ELSE IF Head(a) = Head(b) THEN StrLess(Tail(a), Tail(b))
    ELSE Ord(Head(a)) < Ord(Head(b))

startswith(s, prefix) ==
    /\ Len(s) >= Len(prefix)
    /\ SubSeq(s, 1, Len(prefix)) = prefix

endswith(s, suffix) ==
    /\ Len(s) >= Len(suffix)
    /\ SubSeq(s, Len(s) - Len(suffix) + 1, Len(s)) = suffix

removesuffix(s, suffix) ==
    IF suffix # <<>> /\ endswith(s, suffix)
    THEN SubSeq(s, 1, Len(s) - Len(suffix))
    ELSE s

RECURSIVE Spaces(_)
Spaces(n) == IF n <= 0 THEN <<>> ELSE <<" ">> \o Spaces(n - 1)

ljust(s, w) == s \o Spaces(w - Len(s))

RECURSIVE join(_, _)
join(sep, list) ==
    IF list = <<>> THEN <<>>
    ELSE IF Len(list) = 1 THEN list[1]
    ELSE list[1] \o sep \o join(sep, Tail(list))

\* list.sort(): stable insertion of each element in turn, by StrLess.
RECURSIVE InsertSorted(_, _)
InsertSorted(x, list) ==
    IF list = <<>> THEN <<x>>
    ELSE IF StrLess(x, Head(list)) THEN <<x>> \o list
    ELSE <<Head(list)>> \o InsertSorted(x, Tail(list))

RECURSIVE sort(_)
sort(list) ==
    IF list = <<>> THEN <<>>
    ELSE InsertSorted(list[Len(list)], sort(SubSeq(list, 1, Len(list) - 1)))

\* max(list, key=len) of a non-empty list: the first element of greatest length.
MaxByLen(list) ==
    list[CHOOSE i \in 1..Len(list) :
            /\ \A j \in 1..Len(list) : Len(list[j]) <= Len(list[i])
            /\ \A j \in 1..(i - 1) : Len(list[j]) < Len(list[i])]

Range(list) == {list[i] : i \in 1..Len(list)}

\* The lists of the elements of a set, each once: what os.listdir may return
\* for a directory, and what list(s) may be for a set s (the iteration order
\* of a set of str changes from one process to the next).
Orderings(S) ==
    {l \in [1..Cardinality(S) -> S] : \A i, j \in DOMAIN l : l[i] = l[j] => i = j}

---------------------------------------------------------------------------
(* Inputs: command lines, directory contents, scan responses. *)

Foo == <<"F", "o", "o">>
Bar == <<"B", "a", "r">>
Baz == <<"B", "a", "z">>
simd == <<"s", "i", "m", "d">>
Hidden == <<"_", "H", "i", "d", "d", "e", "n">>

\* The entries a frameworks directory may hold.  Foo and Foo.framework are two
\* entries that strip to one name; _Hidden.framework is excluded by its prefix;
\* simd.framework strips to the name on the allow-list and is the longest name.
DirEntries ==
    { Foo \o FrameworkSuffix, Foo, Bar \o FrameworkSuffix,
      Hidden \o FrameworkSuffix, simd \o FrameworkSuffix }

DirChoices == {d \in SUBSET DirEntries : Cardinality(d) <= MaxEntries}

ProgName == "gen-frameworks-baseline.py"
SdkPaths == {"/sdk/MacOSX.sdk", "/sdk/Other.sdk"}

\* sys.argv: the program name and up to MaxArgs arguments.
ArgvChoices ==
    UNION {{<<ProgName>> \o a : a \in [1..n -> SdkPaths]} : n \in 0..MaxArgs}

EmptyDict == [k \in {} |-> <<>>]
EmptyBytes == [kind |-> "empty"]
GarbageBytes == [kind |-> "text"]
JsonBytes(v) == [kind |-> "json", value |-> v]

Swift(n) == [swift |-> n]
Clang(n) == [clang |-> n]
Both(s, c) == [swift |-> s, clang |-> c]
Meta(dd) == [directDependencies |-> dd]

\* A Swift overlay pair and a Clang pair for the framework, and a pair for
\* another module.  The overlay imports the Clang module of the same name.
\* Only the Clang pair reports Bar; only the foreign pair reports Foo.
OverlayModules(f) ==
    << Swift(f),   Meta(<<Swift(simd), Clang(f), Clang(Baz)>>),
       Clang(Baz), Meta(<<Clang(Foo)>>),
       Clang(f),   Meta(<<Clang(simd), Clang(Hidden), Clang(Bar), Swift(simd)>>) >>

\* An identifier with both names resolves to its swift name; an identifier
\* with neither resolves to None.
MixedModules(f) ==
    << Both(Baz, f), Meta(<<Clang(Bar)>>),
       Both(f, Baz), Meta(<<Clang(simd), EmptyDict, Both(Foo, Baz), Both(Baz, Bar)>>) >>

\* What one scan of framework f may answer: <<returncode, stdout>>.
Responses(f) ==
    << [returncode |-> 0, stdout |-> JsonBytes([modules |-> OverlayModules(f)])],
       [returncode |-> 0, stdout |-> JsonBytes([modules |-> MixedModules(f)])],
       [returncode |-> 0, stdout |-> EmptyBytes],
       [returncode |-> 1, stdout |-> JsonBytes([modules |-> OverlayModules(f)])],
       [returncode |-> 0, stdout |-> GarbageBytes],
       [returncode |-> 0, stdout |-> JsonBytes(EmptyDict)],
       [returncode |-> 0, stdout |-> JsonBytes([modules |-> <<Swift(f), EmptyDict>>])],
       [returncode |-> 0, stdout |-> JsonBytes([modules |->
            <<Clang(Baz), EmptyDict, Clang(f), Meta(<<Clang(Bar)>>), Clang(Foo)>>])] >>

---------------------------------------------------------------------------
(* The program's functions. *)

\* ident.get("swift", ident.get("clang"))
name_from_ident(ident) ==
    IF "swift" \in DOMAIN ident THEN ident.swift
    ELSE IF "clang" \in DOMAIN ident THEN ident.clang
    ELSE None

\* The list comprehension of lines 35-39.
RECURSIVE Discovered(_)
Discovered(listing) ==
    IF listing = <<>> THEN <<>>
    ELSE IF ~startswith(Head(listing), <<"_">>)
    THEN <<removesuffix(Head(listing), FrameworkSuffix)>> \o Discovered(Tail(listing))
    ELSE Discovered(Tail(listing))

\* SortedFrameworks without line 40, frameworks.sort().
UnsortedFrameworks(listing) == Discovered(listing)

\* frameworks after lines 35-40.
SortedFrameworks(listing) == sort(Discovered(listing))

RECURSIVE NamesOf(_)
NamesOf(idents) ==
    IF idents = <<>> THEN <<>>
    ELSE <<name_from_ident(Head(idents))>> \o NamesOf(Tail(idents))

Raised == [raised |-> TRUE, deps |-> <<>>]
Returned(d) == [raised |-> FALSE, deps |-> d]

\* ScanModules with a break after the first matching pair.
RECURSIVE ScanModulesFirstMatch(_, _, _, _)
ScanModulesFirstMatch(modules, i, framework, d) ==
    IF i > Len(modules) THEN Returned(d)
    ELSE IF i + 1 > Len(modules) THEN Raised
    ELSE LET ident == modules[i]
             meta == modules[i + 1]
         IN  IF name_from_ident(ident) = framework
             THEN IF "directDependencies" \in DOMAIN meta
                  THEN Returned(d \o NamesOf(meta.directDependencies))
                  ELSE Raised
             ELSE ScanModulesFirstMatch(modules, i + 2, framework, d)

\* The loop of lines 100-110 from position i (1-based) on, with d accumulated
\* so far.  It raises ValueError when the slice modules[i : i + 2] has one
\* element, and KeyError when a matching pair has no directDependencies.
RECURSIVE ScanModules(_, _, _, _)
ScanModules(modules, i, framework, d) ==
    IF i > Len(modules) THEN Returned(d)
    ELSE IF i + 1 > Len(modules) THEN Raised
    ELSE LET ident == modules[i]
             meta == modules[i + 1]
         IN  IF name_from_ident(ident) = framework
             THEN IF "directDependencies" \in DOMAIN meta
                  THEN ScanModules(modules, i + 2, framework,
                                   d \o NamesOf(meta.directDependencies))
                  ELSE Raised
             ELSE ScanModules(modules, i + 2, framework, d)

\* result.stdout after lines 87-89.
KeptStdout(result) ==
    IF result.returncode # 0 THEN EmptyBytes ELSE result.stdout

\* Lines 87-110: the raw deps list of one scan, or the exception raised.
\* json.loads raises on bytes that are not JSON; data["modules"] raises
\* KeyError when the object has no such key.
ParseResponse(result, framework) ==
    LET out == KeptStdout(result) IN
    IF out.kind = "empty" THEN Returned(<<>>)
    ELSE IF out.kind # "json" THEN Raised
    ELSE IF "modules" \notin DOMAIN out.value THEN Raised
    ELSE ScanModules(out.value.modules, 1, framework, <<>>)

\* FilterDeps without lines 118-119, the removal of the self-reference.
FilterDepsKeepSelf(d, framework, fws) ==
    LET allowed == fws \o ALLOWED_LIBS
        kept == SelectSeq(d, LAMBDA dep : dep \in Range(allowed))
    IN  Range(kept)

\* Lines 114-119: the deps set.
FilterDeps(d, framework, fws) ==
    LET allowed == fws \o ALLOWED_LIBS
        kept == SelectSeq(d, LAMBDA dep : dep \in Range(allowed))
    IN  Range(kept) \ {framework}

\* AttributeLine without line 124, deps.sort().
AttributeLineUnsorted(framework, w, deplist) ==
    IF deplist # <<>>
    THEN <<" ", " ">> \o ljust(framework, w)
         \o <<" ", "=", " ", "{", " ", "i", "n", "h", "e", "r", "i", "t", " ">>
         \o join(<<" ">>, deplist)
         \o <<";", " ", "}", ";", "\n">>
    ELSE <<" ", " ">> \o ljust(framework, w)
         \o <<" ", "=", " ", "{", "}", ";", "\n">>

\* Lines 122-128: the text appended to output for one framework, deplist
\* being list(deps) of line 123 (empty when the set is).
AttributeLine(framework, w, deplist) ==
    IF deplist # <<>>
    THEN <<" ", " ">> \o ljust(framework, w)
         \o <<" ", "=", " ", "{", " ", "i", "n", "h", "e", "r", "i", "t", " ">>
         \o join(<<" ">>, sort(deplist))
         \o <<";", " ", "}", ";", "\n">>
    ELSE <<" ", " ">> \o ljust(framework, w)
         \o <<" ", "=", " ", "{", "}", ";", "\n">>

---------------------------------------------------------------------------
(* Reorderings of a response: the module pairs and each list of direct     *)
(* dependencies reversed.  Only a response whose modules come in whole      *)
(* pairs with a dependency list each is reordered.                          *)

RECURSIVE Reverse(_)
Reverse(list) ==
    IF list = <<>> THEN <<>> ELSE Reverse(Tail(list)) \o <<Head(list)>>

PairsWellFormed(modules) ==
    /\ Len(modules) % 2 = 0
    /\ \A k \in 1..(Len(modules) \div 2) :
          "directDependencies" \in DOMAIN modules[2 * k]

RECURSIVE ReversePairs(_)
ReversePairs(modules) ==
    IF modules = <<>> THEN <<>>
    ELSE ReversePairs(SubSeq(modules, 3, Len(modules)))
         \o <<modules[1], Meta(Reverse(modules[2].directDependencies))>>

Reordered(result) ==
    IF /\ result.stdout.kind = "json"
       /\ "modules" \in DOMAIN result.stdout.value
       /\ PairsWellFormed(result.stdout.value.modules)
    THEN [returncode |-> result.returncode,
          stdout |-> JsonBytes([modules |-> ReversePairs(result.stdout.value.modules)])]
    ELSE result

Reorderings(result) ==
    IF Reordered(result) = result THEN <<result>> ELSE <<result, Reordered(result)>>

---------------------------------------------------------------------------
(* The state machine. *)

NoFirst == [stdout |-> <<>>, exitStatus |-> -1, log |-> <<>>]

Init ==
    /\ argv \in ArgvChoices
    /\ pc = "main"
    /\ sdk = ""
    /\ dir = {}
    /\ frameworks = <<>>
    /\ width = 0
    /\ output = <<>>
    /\ idx = 0
    /\ deps = <<>>
    /\ running = {}
    /\ spawned = 0
    /\ listdirCalls = 0
    /\ scanLog = <<>>
    /\ stdout = <<>>
    /\ writes = 0
    /\ exitStatus = -1
    /\ run = 1
    /\ first = NoFirst

\* Main with the check of line 135 written len(sys.argv) < 2.
MainAtLeastOneArgument ==
    /\ pc = "main"
    /\ IF Len(argv) < 2
       THEN /\ pc' = "exited"
            /\ exitStatus' = UsageExitStatus
            /\ UNCHANGED sdk
       ELSE /\ pc' = "scan_sdk"
            /\ sdk' = argv[2]
            /\ UNCHANGED exitStatus
    /\ UNCHANGED <<argv, dir, frameworks, width, output, idx, deps, running,
                   spawned, listdirCalls, scanLog, stdout, writes, run, first>>

\* Lines 134-139: the argument check, then the call of scan_sdk.
Main ==
    /\ pc = "main"
    /\ IF Len(argv) # 2
       THEN /\ pc' = "exited"
            /\ exitStatus' = UsageExitStatus
            /\ UNCHANGED sdk
       ELSE /\ pc' = "scan_sdk"
            /\ sdk' = argv[2]
            /\ UNCHANGED exitStatus
    /\ UNCHANGED <<argv, dir, frameworks, width, output, idx, deps, running,
                   spawned, listdirCalls, scanLog, stdout, writes, run, first>>

\* Lines 35-45: list the directory, sort the names, compute the width, start
\* the output.  max() of an empty list raises ValueError, which nothing
\* catches: the process exits with the status of an unhandled exception.
\* A repeated invocation reads the directory the first one read.
ListFrameworks ==
    /\ pc = "scan_sdk"
    /\ \E entries \in DirChoices : \E listing \in Orderings(entries) :
         /\ run = 2 => entries = dir
         /\ dir' = entries
         /\ frameworks' = SortedFrameworks(listing)
    /\ listdirCalls' = listdirCalls + 1
    /\ IF frameworks' = <<>>
       THEN /\ pc' = "exited"
            /\ exitStatus' = UnhandledExceptionStatus
            /\ UNCHANGED <<width, output, idx>>
       ELSE /\ width' = Len(MaxByLen(frameworks'))
            /\ output' = HEADER
            /\ idx' = 1
            /\ pc' = "loop"
            /\ UNCHANGED exitStatus
    /\ UNCHANGED <<argv, sdk, deps, running, spawned, scanLog, stdout, writes,
                   run, first>>

\* Lines 47-86, up to the start of the subprocess: subprocess.run blocks until
\* the subprocess has exited.
StartScan ==
    /\ pc = "loop"
    /\ idx <= Len(frameworks)
    /\ deps' = <<>>
    /\ running' = running \cup {idx}
    /\ spawned' = spawned + 1
    /\ pc' = "wait"
    /\ UNCHANGED <<argv, sdk, dir, frameworks, width, output, idx, listdirCalls,
                   scanLog, stdout, writes, exitStatus, run, first>>

\* What the scan at position i may answer: anything on a first invocation,
\* a reordering of the first invocation's answer on a repeated one (anything
\* again for a scan the first invocation never made).
Answers(i) ==
    IF run = 2 /\ i <= Len(first.log)
    THEN Reorderings(first.log[i])
    ELSE Responses(frameworks[i])

\* Lines 62-110, from the exit of the subprocess on: the response is parsed
\* into deps.  An exception raised while parsing is not caught.
ScanExit ==
    /\ pc = "wait"
    /\ \E n \in 1..Len(Answers(idx)) :
         LET result == Answers(idx)[n]
             parsed == ParseResponse(result, frameworks[idx])
         IN  /\ scanLog' = Append(scanLog, result)
             /\ IF parsed.raised
                THEN /\ pc' = "exited"
                     /\ exitStatus' = UnhandledExceptionStatus
                     /\ UNCHANGED deps
                ELSE /\ pc' = "render"
                     /\ deps' = parsed.deps
                     /\ UNCHANGED exitStatus
    /\ running' = running \ {idx}
    /\ UNCHANGED <<argv, sdk, dir, frameworks, width, output, idx, spawned,
                   listdirCalls, stdout, writes, run, first>>

\* RenderLine writing each line to standard output as it is made, instead of
\* appending it to the buffer.
RenderLineWritesThrough ==
    /\ pc = "render"
    /\ \E deplist \in Orderings(FilterDeps(deps, frameworks[idx], frameworks)) :
         stdout' = stdout \o AttributeLine(frameworks[idx], width, deplist)
    /\ writes' = writes + 1
    /\ idx' = idx + 1
    /\ deps' = <<>>
    /\ pc' = "loop"
    /\ UNCHANGED <<argv, sdk, dir, frameworks, width, output, running, spawned,
                   listdirCalls, scanLog, exitStatus, run, first>>

\* Lines 112-128: filter the deps and append the framework's line.  deps is
\* dead after line 128 (line 48 resets it), the model clears it here.
RenderLine ==
    /\ pc = "render"
    /\ \E deplist \in Orderings(FilterDeps(deps, frameworks[idx], frameworks)) :
         output' = output \o AttributeLine(frameworks[idx], width, deplist)
    /\ idx' = idx + 1
    /\ deps' = <<>>
    /\ pc' = "loop"
    /\ UNCHANGED <<argv, sdk, dir, frameworks, width, running, spawned,
                   listdirCalls, scanLog, stdout, writes, exitStatus, run, first>>

\* Lines 130-131 and the return to the interpreter: exit status 0.
Finish ==
    /\ pc = "loop"
    /\ idx > Len(frameworks)
    /\ output' = output \o FOOTER
    /\ stdout' = stdout \o output'
    /\ writes' = writes + 1
    /\ pc' = "exited"
    /\ exitStatus' = 0
    /\ UNCHANGED <<argv, sdk, dir, frameworks, width, idx, deps, running, spawned,
                   listdirCalls, scanLog, run, first>>

\* The program is invoked a second time with the same command line, on the
\* same directory.
Rerun ==
    /\ pc = "exited"
    /\ run = 1
    /\ run' = 2
    /\ first' = [stdout |-> stdout, exitStatus |-> exitStatus, log |-> scanLog]
    /\ pc' = "main"
    /\ sdk' = ""
    /\ frameworks' = <<>>
    /\ width' = 0
    /\ output' = <<>>
    /\ idx' = 0
    /\ deps' = <<>>
    /\ running' = {}
    /\ spawned' = 0
    /\ listdirCalls' = 0
    /\ scanLog' = <<>>
    /\ stdout' = <<>>
    /\ writes' = 0
    /\ exitStatus' = -1
    /\ UNCHANGED <<argv, dir>>

Next ==
    \/ Main
    \/ ListFrameworks
    \/ StartScan
    \/ ScanExit
    \/ RenderLine
    \/ Finish

Spec == Init /\ [][Next]_vars

NextTwice ==
    \/ Next
    \/ Rerun

SpecTwice == Init /\ [][NextTwice]_vars

---------------------------------------------------------------------------
(* Reading the text written to standard output, and what the directory     *)
(* and the responses say, for the statements below.                        *)

\* The pieces of text that end at an occurrence of sep, and the piece after
\* the last occurrence when it is not empty.
SplitOn(text, sep) ==
    LET at == {i \in 1..Len(text) : text[i] = sep}
        ends == at \cup (IF text # <<>> /\ text[Len(text)] # sep
                         THEN {Len(text) + 1} ELSE {})
        before(i) == {j \in ends : j < i}
        nth(k) == CHOOSE i \in ends : Cardinality(before(i)) = k - 1
        start(i) == IF before(i) = {} THEN 1
                    ELSE 1 + CHOOSE j \in before(i) : \A h \in before(i) : h <= j
    IN  [k \in 1..Cardinality(ends) |-> SubSeq(text, start(nth(k)), nth(k) - 1)]

Lines(text) == SplitOn(text, "\n")

Tokens(line) == SelectSeq(SplitOn(line, " "), LAMBDA t : t # <<>>)

\* The lines between the two lines of HEADER and the line of FOOTER.
BodyLines(text) ==
    LET ls == Lines(text) IN
    IF Len(ls) < 3 THEN <<>> ELSE SubSeq(ls, 3, Len(ls) - 1)

LineName(line) == Tokens(line)[1]

\* The names after "inherit", the last without its semicolon.
LineDeps(line) ==
    LET t == Tokens(line)
        k == Len(t) - 5
    IN  IF k <= 0 THEN <<>>
        ELSE [i \in 1..k |->
                IF i = k THEN SubSeq(t[4 + i], 1, Len(t[4 + i]) - 1) ELSE t[4 + i]]

BodyNames(text) == [i \in 1..Len(BodyLines(text)) |-> LineName(BodyLines(text)[i])]

EmptyForm(name, w) ==
    <<" ", " ">> \o name \o Spaces(w - Len(name)) \o <<" ", "=", " ", "{", "}", ";">>

InheritForm(name, w, names) ==
    <<" ", " ">> \o name \o Spaces(w - Len(name))
    \o <<" ", "=", " ", "{", " ", "i", "n", "h", "e", "r", "i", "t", " ">>
    \o join(<<" ">>, names) \o <<";", " ", "}", ";">>

LineHasForm(line, w) ==
    \/ line = EmptyForm(LineName(line), w)
    \/ /\ LineDeps(line) # <<>>
       /\ line = InheritForm(LineName(line), w, LineDeps(line))

\* The directory entries not excluded by their first character.
EligibleEntries == {e \in dir : e[1] # "_"}

\* An entry's name without a trailing ".framework".
Stripped(e) ==
    LET k == Len(e) - Len(FrameworkSuffix) IN
    IF k >= 0 /\ \A i \in 1..Len(FrameworkSuffix) : e[k + i] = FrameworkSuffix[i]
    THEN [i \in 1..k |-> e[i]]
    ELSE e

DiscoveredNames == {Stripped(e) : e \in EligibleEntries}

LongestName ==
    IF DiscoveredNames = {} THEN 0
    ELSE Len(CHOOSE x \in DiscoveredNames : \A y \in DiscoveredNames : Len(y) <= Len(x))

StrictlyIncreasing(names) ==
    \A i \in 1..(Len(names) - 1) : StrLess(names[i], names[i + 1])

\* text is HEADER, n lines of one of the two forms at width w, FOOTER.
IsDocument(text, n, w) ==
    /\ Len(text) >= Len(HEADER) + Len(FOOTER)
    /\ SubSeq(text, 1, Len(HEADER)) = HEADER
    /\ SubSeq(text, Len(text) - Len(FOOTER) + 1, Len(text)) = FOOTER
    /\ Len(Lines(text)) = n + 3
    /\ \A i \in 1..Len(BodyLines(text)) : LineHasForm(BodyLines(text)[i], w)

\* The module pairs (2k-1, 2k, 1-based) of a list whose identifier resolves to f.
MatchingPairs(modules, f) ==
    {k \in 1..(Len(modules) \div 2) :
        LET ident == modules[2 * k - 1] IN
        \/ "swift" \in DOMAIN ident /\ ident.swift = f
        \/ "swift" \notin DOMAIN ident /\ "clang" \in DOMAIN ident /\ ident.clang = f}

HasJson(result) == result.returncode = 0 /\ result.stdout.kind = "json"

\* The response is JSON with "modules" in whole pairs, every pair matching f
\* having "directDependencies".
WellFormed(result, f) ==
    /\ HasJson(result)
    /\ "modules" \in DOMAIN result.stdout.value
    /\ Len(result.stdout.value.modules) % 2 = 0
    /\ \A k \in MatchingPairs(result.stdout.value.modules, f) :
          "directDependencies" \in DOMAIN result.stdout.value.modules[2 * k]

\* The scan wrote something and exited with status 0, and what it wrote is
\* not a well-formed response.
Malformed(result, f) ==
    /\ result.returncode = 0
    /\ result.stdout.kind # "empty"
    /\ ~WellFormed(result, f)

\* Every scan made so far exited non-zero, wrote nothing, or was well-formed.
AllScansUsable ==
    \A i \in 1..Len(scanLog) : ~Malformed(scanLog[i], frameworks[i])

Proceeded == Len(argv) = 2 /\ pc = "exited"

---------------------------------------------------------------------------
(* The statements checked. *)

\* C1: when every scan exits non-zero or answers well-formed JSON, the names
\* on the body lines of the output are the eligible directory entries with
\* ".framework" removed, each once, in increasing code-point order.
C1_NamesAreTheDeduplicatedSortedEntries ==
    (Proceeded /\ AllScansUsable) =>
        /\ Range(BodyNames(stdout)) = (IF stdout = <<>> THEN {} ELSE DiscoveredNames)
        /\ StrictlyIncreasing(BodyNames(stdout))

\* C2: every dependency on a line of the output is a discovered framework
\* name or on the allow-list, and is not the line's own name; no name of an
\* underscore-prefixed entry is a token of any line.
C2_DepsAreAllowedAndNotSelf ==
    \A i \in 1..Len(BodyLines(stdout)) :
        LET line == BodyLines(stdout)[i] IN
        /\ \A j \in 1..Len(LineDeps(line)) :
              /\ LineDeps(line)[j] \in DiscoveredNames \cup Range(ALLOWED_LIBS)
              /\ LineDeps(line)[j] # LineName(line)
        /\ \A e \in dir \ EligibleEntries :
              /\ Stripped(e) # LineName(line)
              /\ Stripped(e) \notin Range(LineDeps(line))

\* A scan reported its own framework, an underscore-prefixed entry of the
\* directory and a module that is no framework, and its line lists something.
C2_Witness ==
    /\ stdout # <<>>
    /\ Hidden \o FrameworkSuffix \in dir
    /\ \E i \in 1..Len(scanLog) :
          /\ scanLog[i] = Responses(frameworks[i])[1]
          /\ LineDeps(BodyLines(stdout)[i]) # <<>>

\* C3: a scan whose response is present and malformed leaves its framework
\* with the empty line, and the run goes on to write the whole document.
C3_MalformedResponseIsTolerated ==
    \A i \in 1..Len(scanLog) :
        Malformed(scanLog[i], frameworks[i]) =>
            /\ exitStatus # UnhandledExceptionStatus
            /\ pc = "exited" =>
                  /\ IsDocument(stdout, Cardinality(EligibleEntries), LongestName)
                  /\ BodyLines(stdout)[i] = EmptyForm(frameworks[i], LongestName)

\* C4: a scan that exits non-zero leaves its framework with the empty line,
\* the frameworks after it are scanned and rendered, and the run ends with
\* exit status 0.
C4_FailedScanIsTolerated ==
    \A i \in 1..Len(scanLog) :
        scanLog[i].returncode # 0 =>
            /\ exitStatus \in {-1, 0}
            /\ pc = "exited" =>
                  /\ Len(scanLog) = Len(frameworks)
                  /\ Len(BodyLines(stdout)) = Len(frameworks)
                  /\ BodyLines(stdout)[i] = EmptyForm(frameworks[i], LongestName)

\* C5: with an argument count other than one the program exits with status
\* 64, writes nothing to standard output, and neither lists the directory
\* nor starts a scan; with one argument it enters scan_sdk with it.
C5_ArgumentCount ==
    pc # "main" =>
        IF Len(argv) # 2
        THEN /\ pc = "exited"
             /\ exitStatus = 64
             /\ stdout = <<>>
             /\ listdirCalls = 0
             /\ spawned = 0
        ELSE /\ sdk = argv[2]
             /\ exitStatus # 64
             /\ pc = "scan_sdk" \/ listdirCalls = 1

C5_Witness ==
    /\ pc = "exited"
    /\ Len(argv) = 3
    /\ exitStatus = 64

\* C6: when every scan exits non-zero or answers well-formed JSON, also for a
\* directory with no eligible entry, the run ends normally and the output is
\* HEADER, one line of one of the two forms per discovered framework, FOOTER.
C6_CompleteDocumentAlsoWhenEmpty ==
    (Proceeded /\ AllScansUsable) =>
        /\ exitStatus = 0
        /\ IsDocument(stdout, Cardinality(EligibleEntries), LongestName)

\* C7: the dependencies on a line of the output are in strictly increasing
\* code-point order (so pairwise distinct).
C7_DepsStrictlyIncreasing ==
    \A i \in 1..Len(BodyLines(stdout)) :
        StrictlyIncreasing(LineDeps(BodyLines(stdout)[i]))

\* A scan reported simd three times and Bar after it, and its line lists two
\* names or more.
C7_Witness ==
    /\ stdout # <<>>
    /\ \E i \in 1..Len(scanLog) :
          /\ scanLog[i] = Responses(frameworks[i])[1]
          /\ Len(LineDeps(BodyLines(stdout)[i])) >= 2

\* C8: a second run on the same directory entries, listed in any order, whose
\* scans answer as the first run's did up to the order of module pairs and of
\* dependencies, writes the same standard output and ends the same way.
C8_RepeatedRunWritesTheSame ==
    (run = 2 /\ pc = "exited") =>
        /\ stdout = first.stdout
        /\ exitStatus = first.exitStatus

\* The second run has ended, two frameworks or more were scanned, and a scan
\* answered in another order than in the first run.
C8_Witness ==
    /\ run = 2
    /\ pc = "exited"
    /\ stdout # <<>>
    /\ Len(frameworks) >= 2
    /\ \E i \in 1..Len(scanLog) : scanLog[i] # first.log[i]

\* C9: after a well-formed response has been parsed, the names accumulated
\* are those of the direct dependencies of every pair whose identifier
\* resolves to the framework (its swift name if it has one, else its clang
\* name), and of no other pair.
C9_AllMatchingPairsContribute ==
    (pc = "render" /\ WellFormed(scanLog[idx], frameworks[idx])) =>
        LET modules == scanLog[idx].stdout.value.modules IN
        Range(deps) =
            UNION { { IF "swift" \in DOMAIN ident THEN ident.swift
                      ELSE IF "clang" \in DOMAIN ident THEN ident.clang
                      ELSE None :
                      ident \in Range(modules[2 * k].directDependencies) } :
                    k \in MatchingPairs(modules, frameworks[idx]) }

\* The response has two matching pairs and a foreign pair; _Hidden comes from
\* the second matching pair only.
C9_Witness ==
    /\ pc = "render"
    /\ scanLog[idx] = Responses(frameworks[idx])[1]
    /\ Cardinality(MatchingPairs(scanLog[idx].stdout.value.modules, frameworks[idx])) = 2
    /\ Hidden \in Range(deps)

\* C10: standard output is written at most once, and only when every
\* framework has been scanned and rendered: until then it is empty, and from
\* then on it is the whole document.  At most one scan subprocess runs at any
\* time, and it is the one of the current framework.
C10_OutputWrittenOnceAtTheEnd ==
    /\ writes <= 1
    /\ writes = 0 => stdout = <<>>
    /\ writes = 1 =>
          /\ pc = "exited"
          /\ exitStatus = 0
          /\ Len(scanLog) = Len(frameworks)
          /\ IsDocument(stdout, Cardinality(EligibleEntries), LongestName)
    /\ Cardinality(running) <= 1
    /\ running # {} => running = {idx} /\ Len(scanLog) = idx - 1
    /\ spawned = Len(scanLog) + Cardinality(running)

\* A run of two frameworks or more has written its document.
C10_Witness ==
    /\ writes = 1
    /\ Len(BodyLines(stdout)) >= 2

====
